---- MODULE Spec2Model ----
(***************************************************************************)
(* Model of src/huffman_coding.py: the HuffmanCoding codec object, its     *)
(* compress and decompress methods, the heapq priority queue they use and  *)
(* the two files they write.                                               *)
(*                                                                         *)
(* Characters are strings of length one, texts are sequences of            *)
(* characters, bit strings ("0"/"1" characters in the source) are          *)
(* sequences of the digits 0 and 1.  A Python attribute that is None is    *)
(* the empty sequence <<>>, one that holds a node n is <<n>>.              *)
(***************************************************************************)
EXTENDS Integers, Sequences, FiniteSets, TLC

VARIABLES
    heap,                 \* self.__heap
    codes,                \* self.__codes          (dict: character -> bit string)
    reverseCodes,         \* self.__reverseCodes   (dict: bit string -> character)
    fileText,             \* content of the file at self.path when compress read it
    binFile,              \* the file at output_path of compress (.bin)
    txtFile,              \* the file at output_path of decompress (_decompressed.txt)
    op,                   \* the method that ran last
    result,               \* "ok" or the exception that ended it
    calls,                \* number of compress calls on this object
    text,                 \* compress: text (after rstrip)
    tree_heap,            \* compress: self.__heap when __buildTree returned
    encoded_text,         \* compress: encoded_text
    padded_encoded_text,  \* compress: padded_encoded_text
    input_bytes,          \* decompress: the bytes read from input_path
    extra_padding,        \* __removePadding: extra_padding
    actual_text,          \* decompress: actual_text
    decoded_text,         \* __decodeText: decoded_text
    current_bits          \* __decodeText: current_bits when the scan ended

vars == <<heap, codes, reverseCodes, fileText, binFile, txtFile, op, result, calls,
          text, tree_heap, encoded_text, padded_encoded_text,
          input_bytes, extra_padding, actual_text, decoded_text, current_bits>>

compressLocals == <<text, tree_heap, encoded_text, padded_encoded_text>>
decompressLocals == <<input_bytes, extra_padding, actual_text, decoded_text, current_bits>>

-----------------------------------------------------------------------------
(* Bounds of the model. *)

MaxLen == 2        \* longest input file of the reused-object specification
MaxCalls == 2      \* compress calls on one object in that specification
MaxOnceLen == 6    \* longest input file of the single-run specification
MaxDamagedLen == 4 \* longest input file of the damaged-input specification
MaxBits == 9       \* longest encoded bit string handed to the packer alone

Whitespace == {" "}
Letters == {"a", "b", "c", "d"}
None == "None"

RECURSIVE SeqsUpTo(_, _)
SeqsUpTo(S, n) ==
    IF n = 0 THEN {<<>>}
    ELSE LET shorter == SeqsUpTo(S, n - 1)
         IN  shorter \cup {Append(s, x) : s \in {t \in shorter : Len(t) = n - 1}, x \in S}

Texts == SeqsUpTo({"a", "b"} \cup Whitespace, MaxLen)
OnceTexts == SeqsUpTo(Letters, MaxOnceLen)
DamagedTexts == SeqsUpTo({"a", "b", "c"}, MaxDamagedLen)
BitStrings == SeqsUpTo({0, 1}, MaxBits)

-----------------------------------------------------------------------------
(* Python helpers. *)

Zeros(n) == [i \in 1..n |-> 0]

\* s[a:b] for 0 <= a, 0 <= b
Slice(s, a, b) == SubSeq(s, a + 1, IF b > Len(s) THEN Len(s) ELSE b)

\* rstrip left out: the text is the file as read
rstripOmitted(s) == s

\* str.rstrip()
RECURSIVE rstrip(_)
rstrip(s) ==
    IF s = <<>> THEN s
    ELSE IF s[Len(s)] \in Whitespace THEN rstrip(SubSeq(s, 1, Len(s) - 1)) ELSE s

\* the digits of bin(n)[2:], also of "{0:b}".format(n)
RECURSIVE bin(_)
bin(n) == IF n < 2 THEN <<n>> ELSE Append(bin(n \div 2), n % 2)

\* str.rjust(w, '0'), also the 0w of a format
rjust(s, w) == IF Len(s) >= w THEN s ELSE Zeros(w - Len(s)) \o s

\* int(s, 2) of a non-empty digit string
RECURSIVE int2(_)
int2(s) == IF Len(s) = 1 THEN s[1] ELSE 2 * int2(SubSeq(s, 1, Len(s) - 1)) + s[Len(s)]

\* dict[key] = value
Store(d, key, value) == (key :> value) @@ d

-----------------------------------------------------------------------------
(* BinaryTreeNode and heapq. Heap positions are Python's, from 0. *)

BinaryTreeNode(value, freq) == [value |-> value, freq |-> freq, left |-> <<>>, right |-> <<>>]

\* __lt__ with the comparison turned round
ltReversed(x, y) == x.freq > y.freq

lt(x, y) == x.freq < y.freq

At(h, pos) == h[pos + 1]
Put(h, pos, item) == [h EXCEPT ![pos + 1] = item]

RECURSIVE siftdownLoop(_, _, _, _)
siftdownLoop(h, startpos, pos, newitem) ==
    IF pos > startpos
    THEN LET parentpos == (pos - 1) \div 2
             parent == At(h, parentpos)
         IN  IF lt(newitem, parent)
             THEN siftdownLoop(Put(h, pos, parent), startpos, parentpos, newitem)
             ELSE Put(h, pos, newitem)
    ELSE Put(h, pos, newitem)

siftdown(h, startpos, pos) == siftdownLoop(h, startpos, pos, At(h, pos))

RECURSIVE siftupLoop(_, _, _)
siftupLoop(h, pos, newitem) ==
    LET endpos == Len(h)
        leftpos == 2 * pos + 1
        rightpos == leftpos + 1
        childpos == IF rightpos < endpos /\ ~lt(At(h, leftpos), At(h, rightpos))
                    THEN rightpos ELSE leftpos
    IN  IF leftpos < endpos
        THEN siftupLoop(Put(h, pos, At(h, childpos)), childpos, newitem)
        ELSE <<Put(h, pos, newitem), pos>>

siftup(h, pos) ==
    LET r == siftupLoop(h, pos, At(h, pos))
    IN  siftdown(r[1], pos, r[2])

heappush(h, item) == siftdown(Append(h, item), 0, Len(h))

\* heappop of a non-empty heap: the item returned and the heap left
heappop(h) ==
    LET lastelt == h[Len(h)]
        rest == SubSeq(h, 1, Len(h) - 1)
    IN  IF rest # <<>>
        THEN [item |-> rest[1], heap |-> siftup(Put(rest, 0, lastelt), 0)]
        ELSE [item |-> lastelt, heap |-> rest]

-----------------------------------------------------------------------------
(* HuffmanCoding: the private methods. A dict that is iterated (freq_dict) *)
(* is the sequence of its items in insertion order.                        *)

Keys(freq_dict) == {freq_dict[i].key : i \in 1..Len(freq_dict)}

RECURSIVE make_frequency_dict(_)
make_frequency_dict(txt) ==
    IF txt = <<>> THEN <<>>
    ELSE LET char == txt[Len(txt)]
             before == make_frequency_dict(SubSeq(txt, 1, Len(txt) - 1))
             freq_dict == IF char \notin Keys(before)
                          THEN Append(before, [key |-> char, freq |-> 0])
                          ELSE before
         IN  [i \in 1..Len(freq_dict) |->
                 IF freq_dict[i].key = char
                 THEN [freq_dict[i] EXCEPT !.freq = @ + 1]
                 ELSE freq_dict[i]]

RECURSIVE buildHeap(_, _)
buildHeap(h, freq_dict) ==
    IF freq_dict = <<>> THEN h
    ELSE buildHeap(heappush(h, BinaryTreeNode(freq_dict[1].key, freq_dict[1].freq)),
                   Tail(freq_dict))

\* __buildTree with the two popped nodes attached the other way round
RECURSIVE buildTreeSwapped(_)
buildTreeSwapped(h) ==
    IF Len(h) > 1
    THEN LET pop1 == heappop(h)
             pop2 == heappop(pop1.heap)
             newNode == [value |-> None, freq |-> pop1.item.freq + pop2.item.freq,
                         left |-> <<pop2.item>>,
                         right |-> <<pop1.item>>]
         IN  buildTreeSwapped(heappush(pop2.heap, newNode))
    ELSE h

RECURSIVE buildTree(_)
buildTree(h) ==
    IF Len(h) > 1
    THEN LET pop1 == heappop(h)
             pop2 == heappop(pop1.heap)
             binary_tree_node_1 == pop1.item
             binary_tree_node_2 == pop2.item
             freq_sum == binary_tree_node_1.freq + binary_tree_node_2.freq
             newNode == [value |-> None, freq |-> freq_sum,
                         left |-> <<binary_tree_node_1>>,
                         right |-> <<binary_tree_node_2>>]
         IN  buildTree(heappush(pop2.heap, newNode))
    ELSE h

\* __buildCodesHelper descending right without appending "1"
RECURSIVE buildCodesHelperNoBit(_, _, _)
buildCodesHelperNoBit(root, curr_bits, tables) ==
    IF root = <<>> THEN tables
    ELSE IF root[1].value # None
    THEN [codes |-> Store(tables.codes, root[1].value, curr_bits),
          reverseCodes |-> Store(tables.reverseCodes, curr_bits, root[1].value)]
    ELSE buildCodesHelperNoBit(root[1].right, curr_bits,
             buildCodesHelperNoBit(root[1].left, Append(curr_bits, 0), tables))

\* tables is the pair of dicts [codes, reverseCodes] the traversal writes into;
\* root is <<>> (None) or <<node>>
RECURSIVE buildCodesHelper(_, _, _)
buildCodesHelper(root, curr_bits, tables) ==
    IF root = <<>> THEN tables
    ELSE IF root[1].value # None
    THEN [codes |-> Store(tables.codes, root[1].value, curr_bits),
          reverseCodes |-> Store(tables.reverseCodes, curr_bits, root[1].value)]
    ELSE buildCodesHelper(root[1].right, Append(curr_bits, 1),
             buildCodesHelper(root[1].left, Append(curr_bits, 0), tables))

\* __buildCodes of a non-empty heap: the heap left and the two dicts
buildCodes(h, tables) ==
    LET pop == heappop(h)
    IN  [heap |-> pop.heap, tables |-> buildCodesHelper(<<pop.item>>, <<>>, tables)]

RECURSIVE getEncodedText(_, _)
getEncodedText(txt, cds) ==
    IF txt = <<>> THEN <<>> ELSE cds[txt[1]] \o getEncodedText(Tail(txt), cds)

\* __getPaddedEncodedText padding only up to the next byte boundary
getPaddedEncodedTextToBoundary(enc) ==
    LET padded_amount == (8 - (Len(enc) % 8)) % 8
        padded_info == rjust(bin(padded_amount), 8)
    IN  padded_info \o (enc \o Zeros(padded_amount))

getPaddedEncodedText(enc) ==
    LET padded_amount == 8 - (Len(enc) % 8)
        padded_info == rjust(bin(padded_amount), 8)
    IN  padded_info \o (enc \o Zeros(padded_amount))

RECURSIVE getBytesArray(_)
getBytesArray(padded) ==
    IF padded = <<>> THEN <<>>
    ELSE <<int2(Slice(padded, 0, 8))>> \o getBytesArray(Slice(padded, 8, Len(padded)))

\* decompress, lines 151-157: the bytes of the file as one bit string
RECURSIVE readBitString(_)
readBitString(bytes) ==
    IF bytes = <<>> THEN <<>>
    ELSE rjust(bin(bytes[1]), 8) \o readBitString(Tail(bytes))

\* __removePadding of a bit string that has a header (int('', 2) raises ValueError)
removePadding(bits) ==
    LET padded_info == Slice(bits, 0, 8)
        extra == int2(padded_info)
        rest == Slice(bits, 8, Len(bits))
        stop == IF extra = 0 THEN 0
                ELSE IF Len(rest) - extra < 0 THEN 0 ELSE Len(rest) - extra
    IN  [extra_padding |-> extra, text |-> Slice(rest, 0, stop)]

\* __decodeText: the text decoded and the candidate left when the scan ends
RECURSIVE decodeLoop(_, _, _, _)
decodeLoop(bits, rev, decoded, current) ==
    IF bits = <<>> THEN [decoded_text |-> decoded, current_bits |-> current]
    ELSE LET cur == Append(current, bits[1])
         IN  IF cur \in DOMAIN rev
             THEN decodeLoop(Tail(bits), rev, Append(decoded, rev[cur]), <<>>)
             ELSE decodeLoop(Tail(bits), rev, decoded, cur)

decodeText(bits, rev) == decodeLoop(bits, rev, <<>>, <<>>)

-----------------------------------------------------------------------------
(* The files. *)

NoFile == [exists |-> FALSE, data |-> <<>>]
File(data) == [exists |-> TRUE, data |-> data]

-----------------------------------------------------------------------------
(* HuffmanCoding: construction and the two public methods. *)

Init ==
    /\ heap = <<>>
    /\ codes = <<>>
    /\ reverseCodes = <<>>
    /\ fileText = <<>>
    /\ binFile = NoFile
    /\ txtFile = NoFile
    /\ op = "init"
    /\ result = "ok"
    /\ calls = 0
    /\ text = <<>>
    /\ tree_heap = <<>>
    /\ encoded_text = <<>>
    /\ padded_encoded_text = <<>>
    /\ input_bytes = <<>>
    /\ extra_padding = 0
    /\ actual_text = <<>>
    /\ decoded_text = <<>>
    /\ current_bits = <<>>

\* compress() of a file at self.path that holds content. Both files are opened
\* (the output truncated) before anything is read; heappop of the empty heap in
\* __buildCodes raises IndexError. Each local is bound once, as a value.
compress(content) ==
    \E txt \in {rstrip(content)} :
    \E built \in {buildTree(buildHeap(heap, make_frequency_dict(txt)))} :
        /\ op' = "compress"
        /\ calls' = calls + 1
        /\ fileText' = content
        /\ text' = txt
        /\ tree_heap' = built
        /\ input_bytes' = <<>>
        /\ extra_padding' = 0
        /\ actual_text' = <<>>
        /\ decoded_text' = <<>>
        /\ current_bits' = <<>>
        /\ UNCHANGED txtFile
        /\ IF built = <<>>
           THEN /\ result' = "IndexError"
                /\ heap' = built
                /\ binFile' = File(<<>>)
                /\ encoded_text' = <<>>
                /\ padded_encoded_text' = <<>>
                /\ UNCHANGED <<codes, reverseCodes>>
           ELSE \E bc \in {buildCodes(built, [codes |-> codes,
                                              reverseCodes |-> reverseCodes])} :
                \E enc \in {getEncodedText(txt, bc.tables.codes)} :
                \E padded \in {getPaddedEncodedText(enc)} :
                    /\ result' = "ok"
                    /\ heap' = bc.heap
                    /\ codes' = bc.tables.codes
                    /\ reverseCodes' = bc.tables.reverseCodes
                    /\ encoded_text' = enc
                    /\ padded_encoded_text' = padded
                    /\ binFile' = File(getBytesArray(padded))

\* decompress(input_path) of a file that holds bytes; the output file is opened
\* (truncated) before the input is read, and int('', 2) in __removePadding raises
\* ValueError when the file has no byte.
decompress(bytes) ==
    \E bit_string \in {readBitString(bytes)} :
        /\ op' = "decompress"
        /\ input_bytes' = bytes
        /\ UNCHANGED <<heap, codes, reverseCodes, fileText, binFile, calls>>
        /\ UNCHANGED compressLocals
        /\ IF bit_string = <<>>
           THEN /\ result' = "ValueError"
                /\ txtFile' = File(<<>>)
                /\ extra_padding' = 0
                /\ actual_text' = <<>>
                /\ decoded_text' = <<>>
                /\ current_bits' = <<>>
           ELSE \E rp \in {removePadding(bit_string)} :
                \E dec \in {decodeText(rp.text, reverseCodes)} :
                    /\ result' = "ok"
                    /\ extra_padding' = rp.extra_padding
                    /\ actual_text' = rp.text
                    /\ decoded_text' = dec.decoded_text
                    /\ current_bits' = dec.current_bits
                    /\ txtFile' = File(dec.decoded_text)

\* decompress(output_path of compress) when no file is there: the first open
\* raises, before the output is opened
DecompressMissing ==
    /\ ~binFile.exists
    /\ op' = "decompress"
    /\ result' = "FileNotFoundError"
    /\ input_bytes' = <<>>
    /\ extra_padding' = 0
    /\ actual_text' = <<>>
    /\ decoded_text' = <<>>
    /\ current_bits' = <<>>
    /\ UNCHANGED <<heap, codes, reverseCodes, fileText, binFile, txtFile, calls>>
    /\ UNCHANGED compressLocals

\* One object, compressing one file after another and decompressing what it wrote.
Compress ==
    /\ calls < MaxCalls
    /\ \E content \in Texts : compress(content)

Decompress ==
    /\ binFile.exists
    /\ decompress(binFile.data)

Next == Compress \/ Decompress \/ DecompressMissing

Spec == Init /\ [][Next]_vars

-----------------------------------------------------------------------------
(* A fresh object that compresses one file and then decompresses what it    *)
(* wrote (the script at lines 169-172).                                     *)

CompressOnce ==
    /\ calls = 0
    /\ \E content \in OnceTexts : compress(content)

DecompressWritten ==
    /\ op = "compress"
    /\ decompress(binFile.data)

NextOnce == CompressOnce \/ DecompressWritten \/ DecompressMissing

SpecOnce == Init /\ [][NextOnce]_vars

-----------------------------------------------------------------------------
(* A fresh object that compresses one file and is then given, at            *)
(* input_path, that file with one bit flipped or a leading part of it.      *)

FlipBit(byte, k) == IF (byte \div 2^k) % 2 = 1 THEN byte - 2^k ELSE byte + 2^k

Damaged(bytes) ==
    {[bytes EXCEPT ![i] = FlipBit(@, k)] : i \in 1..Len(bytes), k \in 0..7}
        \cup {SubSeq(bytes, 1, n) : n \in 0..(Len(bytes) - 1)}

CompressForDamage ==
    /\ calls = 0
    /\ \E content \in DamagedTexts : compress(content)

DecompressDamaged ==
    /\ op = "compress"
    /\ \E bytes \in Damaged(binFile.data) : decompress(bytes)

NextDamaged == CompressForDamage \/ DecompressDamaged

SpecDamaged == Init /\ [][NextDamaged]_vars

-----------------------------------------------------------------------------
(* The packer alone, lines 78-93 and 118, on every bit string up to MaxBits. *)

InitPack ==
    /\ heap = <<>>
    /\ codes = <<>>
    /\ reverseCodes = <<>>
    /\ fileText = <<>>
    /\ binFile = NoFile
    /\ txtFile = NoFile
    /\ op = "init"
    /\ result = "ok"
    /\ calls = 0
    /\ text = <<>>
    /\ tree_heap = <<>>
    /\ encoded_text \in BitStrings
    /\ padded_encoded_text = <<>>
    /\ input_bytes = <<>>
    /\ extra_padding = 0
    /\ actual_text = <<>>
    /\ decoded_text = <<>>
    /\ current_bits = <<>>

Pack ==
    /\ op = "init"
    /\ op' = "pack"
    /\ padded_encoded_text' = getPaddedEncodedText(encoded_text)
    /\ binFile' = File(getBytesArray(padded_encoded_text'))
    /\ UNCHANGED <<heap, codes, reverseCodes, fileText, txtFile, result, calls,
                   text, tree_heap, encoded_text>>
    /\ UNCHANGED decompressLocals

NextPack == Pack

SpecPack == InitPack /\ [][NextPack]_vars

-----------------------------------------------------------------------------
(* Vocabulary of the properties, defined apart from the methods above. *)

Symbols(txt) == {txt[i] : i \in 1..Len(txt)}

Count(s, txt) == Cardinality({i \in 1..Len(txt) : txt[i] = s})

Range(f) == {f[x] : x \in DOMAIN f}

IsPrefix(c, d) == Len(c) <= Len(d) /\ SubSeq(d, 1, Len(c)) = c

PrefixFreeSet(C) == \A c \in C, d \in C : c # d => ~IsPrefix(c, d)

RECURSIVE Sum(_, _)
Sum(f, S) == IF S = {} THEN 0 ELSE LET x == CHOOSE y \in S : TRUE IN f[x] + Sum(f, S \ {x})

Min(S) == CHOOSE m \in S : \A n \in S : m <= n

\* The code words an optimal code of the letters can need: with N symbols no word of
\* a cheapest prefix-free code is longer than N - 1 bits.
CodeLenCap == Cardinality(Letters) - 1
CodeWords == SeqsUpTo({0, 1}, CodeLenCap) \ {<<>>}

\* LengthProfiles[n]: the word lengths <<l1, ..., ln>> of every prefix-free code of n
\* distinct words.
LengthProfiles ==
    [n \in 2..Cardinality(Letters) |->
        {[i \in 1..n |-> Len(g[i])] :
            g \in {f \in [1..n -> CodeWords] :
                     \A i \in 1..n, j \in 1..n : i # j => ~IsPrefix(f[i], f[j])}}]

\* the cost, sum of count x code length, of the code table for txt
TableCost(txt, cds) == Sum([s \in Symbols(txt) |-> Count(s, txt) * Len(cds[s])], Symbols(txt))

\* the least cost of a prefix-free binary code for the symbols of txt
LeastCost(txt) ==
    LET n == Cardinality(Symbols(txt))
        sym == CHOOSE f \in [1..n -> Symbols(txt)] : \A i \in 1..n, j \in 1..n : i # j => f[i] # f[j]
    IN  Min({Sum([i \in 1..n |-> Count(sym[i], txt) * p[i]], 1..n) : p \in LengthProfiles[n]})

\* the tree below a node
RECURSIVE NumLeaves(_)
NumLeaves(n) ==
    IF n.left = <<>> /\ n.right = <<>> THEN 1
    ELSE (IF n.left = <<>> THEN 0 ELSE NumLeaves(n.left[1]))
         + (IF n.right = <<>> THEN 0 ELSE NumLeaves(n.right[1]))

RECURSIVE NumInternal(_)
NumInternal(n) ==
    IF n.left = <<>> /\ n.right = <<>> THEN 0
    ELSE 1 + (IF n.left = <<>> THEN 0 ELSE NumInternal(n.left[1]))
           + (IF n.right = <<>> THEN 0 ELSE NumInternal(n.right[1]))

RECURSIVE LeafSet(_)
LeafSet(n) ==
    IF n.left = <<>> /\ n.right = <<>> THEN {<<n.value, n.freq>>}
    ELSE (IF n.left = <<>> THEN {} ELSE LeafSet(n.left[1]))
         \cup (IF n.right = <<>> THEN {} ELSE LeafSet(n.right[1]))

\* every internal node has two children, no symbol, the sum of their frequencies,
\* and as left child the one of the two that the queue yields first
RECURSIVE WellFormed(_)
WellFormed(n) ==
    IF n.left = <<>> /\ n.right = <<>> THEN n.value # None
    ELSE /\ n.left # <<>> /\ n.right # <<>>
         /\ n.value = None
         /\ n.freq = n.left[1].freq + n.right[1].freq
         /\ n.left[1].freq <= n.right[1].freq
         /\ WellFormed(n.left[1])
         /\ WellFormed(n.right[1])

-----------------------------------------------------------------------------
(* The properties. *)

\* C2: in the code table that compress, run on a fresh object, builds for its input
\* text, no code is a prefix of a different code.
PrefixFree ==
    (op = "compress" /\ result = "ok") =>
        PrefixFreeSet(Range(codes) \cup DOMAIN reverseCodes)

PrefixFreeWitness ==
    /\ op = "compress" /\ result = "ok"
    /\ Cardinality(DOMAIN codes) = 4
    /\ \E s \in DOMAIN codes, t \in DOMAIN codes : Len(codes[s]) = 1 /\ Len(codes[t]) = 3

\* C5: for a text of at least two distinct symbols, the sum over the symbols of
\* count x code length for the codes compress builds is the least such sum over
\* all prefix-free binary codes of those symbols.
Optimal ==
    (op = "compress" /\ Cardinality(Symbols(text)) >= 2) =>
        TableCost(text, codes) = LeastCost(text)

OptimalWitness ==
    /\ op = "compress"
    /\ Cardinality(Symbols(text)) = 4
    /\ \E s \in Symbols(text) : Count(s, text) = 3
    /\ TableCost(text, codes) = 11

\* C10: for a text of N >= 1 distinct symbols, when __buildTree returns the queue
\* holds exactly one node, and the tree rooted there has N leaves, one per symbol
\* with its count, and N - 1 internal nodes, each with the sum of its two children's
\* frequencies and the first-popped (lower) child on the left.
TreeShape ==
    (op = "compress" /\ text # <<>>) =>
        /\ Len(tree_heap) = 1
        /\ NumLeaves(tree_heap[1]) = Cardinality(Symbols(text))
        /\ LeafSet(tree_heap[1]) = {<<s, Count(s, text)>> : s \in Symbols(text)}
        /\ NumInternal(tree_heap[1]) = Cardinality(Symbols(text)) - 1
        /\ WellFormed(tree_heap[1])

TreeShapeWitness ==
    /\ op = "compress"
    /\ Cardinality(Symbols(text)) = 4
    /\ Len(tree_heap) = 1
    /\ tree_heap[1].freq = 6
    /\ tree_heap[1].left[1].value # None
    /\ tree_heap[1].right[1].value = None

\* C4: for every encoded bit string E the packer appends 8 - (len(E) mod 8) zero
\* bits, a number in 1..8 that is 8 when len(E) is a multiple of 8; the 8-bit header
\* in front is that number, and header + E + padding is a whole number of bytes.
Padding ==
    op = "pack" =>
        LET E == encoded_text
            P == padded_encoded_text
            n == Len(P) - 8 - Len(E)
            header == P[1] * 128 + P[2] * 64 + P[3] * 32 + P[4] * 16
                      + P[5] * 8 + P[6] * 4 + P[7] * 2 + P[8]
        IN  /\ Len(P) >= 8 + Len(E)
            /\ n \in 1..8
            /\ n = 8 - (Len(E) % 8)
            /\ (Len(E) % 8 = 0) => (n = 8)
            /\ header = n
            /\ SubSeq(P, 9, 8 + Len(E)) = E
            /\ \A i \in (9 + Len(E))..Len(P) : P[i] = 0
            /\ Len(P) % 8 = 0
            /\ Len(binFile.data) * 8 = Len(P)
            /\ binFile.data[1] = n

PaddingWitness ==
    /\ op = "pack"
    /\ Len(encoded_text) = 8
    /\ Len(padded_encoded_text) = 24
    /\ binFile.data[1] = 8

\* C6: when the file holds no symbol once its trailing whitespace is gone (it is
\* empty or all whitespace), compress ends in an error, writes no byte of output,
\* and builds no tree and no code table (both dicts stay as they were).
EmptyInputFails ==
    [][(op' = "compress" /\ \A i \in 1..Len(fileText') : fileText'[i] \in Whitespace) =>
          /\ result' = "IndexError"
          /\ tree_heap' = <<>>
          /\ heap' = <<>>
          /\ binFile'.data = <<>>
          /\ codes' = codes
          /\ reverseCodes' = reverseCodes]_vars

EmptyInputFailsWitness ==
    /\ op = "compress"
    /\ calls = 2
    /\ fileText # <<>>
    /\ \A i \in 1..Len(fileText) : fileText[i] \in Whitespace
    /\ result = "IndexError"
    /\ codes # <<>>

\* C1: for every non-empty text S, compress of S followed by decompress of the bytes
\* compress wrote, on the same object, yields exactly S.
RoundTrip ==
    (op = "decompress" /\ text # <<>> /\ input_bytes = binFile.data) =>
        /\ result = "ok"
        /\ decoded_text = text
        /\ txtFile = File(text)

\* C3: when the text has exactly one distinct symbol, that symbol's code is the one
\* bit "0", not the empty string.
SingleSymbolCode ==
    (op = "compress" /\ Cardinality(Symbols(text)) = 1) =>
        \A s \in Symbols(text) : codes[s] = <<0>>

\* C7: decompress reports an error, and returns no decoded text, whenever the scan
\* ends with a non-empty candidate that matched no code, or the header's
\* padding_amount exceeds the number of bits that follow the header.
CorruptDetected ==
    (/\ op = "decompress"
     /\ Len(input_bytes) >= 1
     /\ \/ current_bits # <<>>
        \/ extra_padding > 8 * (Len(input_bytes) - 1)) =>
        result # "ok"

\* C8: whenever compress or decompress ends in an error, the output file at its
\* target path is neither created nor altered.
NoPartialOutput ==
    [][/\ (op' = "compress" /\ result' # "ok") => binFile' = binFile
       /\ (op' = "decompress" /\ result' # "ok") => txtFile' = txtFile]_vars

\* C9: after any sequence of successful compress calls on one object, the forward
\* and reverse mappings are exact inverses, with no stale entry in either.
TablesInverse ==
    /\ \A s \in DOMAIN codes :
          codes[s] \in DOMAIN reverseCodes /\ reverseCodes[codes[s]] = s
    /\ \A c \in DOMAIN reverseCodes :
          reverseCodes[c] \in DOMAIN codes /\ codes[reverseCodes[c]] = c

====
